---- MODULE Spec2Model ----
(***************************************************************************)
(* Conway's Game of Life on a torus (src/src/main.rs): the Universe        *)
(* (grid, generation counter, calc/draw flags), the window procedure's    *)
(* keyboard and pointer handlers, and the timer callback tick_run.         *)
(***************************************************************************)
EXTENDS Integers, Sequences, FiniteSets, TLC

\* ------------------------------------------------------------------ bounds

\* Side of the square grid.  The program uses CELL_SIZE = 64 (main.rs:34);
\* the model keeps the code and shrinks the grid.
Side == 3

\* The generation counter (an i64 in the program) is capped in the guards.
MaxCount == 2

\* gen_map may produce any grid; the interactive specification draws its
\* fills from the grids whose live cells lie among the first MaxFill cells.
MaxFill == 2

\* ------------------------------------------------------- program constants

CELL_SIZE == Side

\* COL_LEN = _WIDTH / CELL_SIZE = 800 / 64, ROW_LEN = _HEIGHT / CELL_SIZE.
COL_LEN == 12

ROW_LEN == 12

\* enum Cell { Alive = 1, Dead = 0 }
Alive == 1

Dead == 0

Cell == {Alive, Dead}

\* ------------------------------------------------------------ u32 and u16

\* A u32 is kept as its two 16-bit halves <<hi, lo>>, value hi * 2^16 + lo,
\* so that the 32-bit width of the program's arithmetic is kept exactly.
Half == 2 ^ 16

\* `n as u32` for an i32 n (two's complement), and the u32 of a literal.
as_u32(n) == <<(n \div Half) % Half, n % Half>>

\* Full product of two 16-bit numbers as <<hi, lo>>, by 8-bit pieces.
mul16(x, y) ==
    LET p1 == (x \div 256) * y
        p0 == (x % 256) * y
        s  == (p1 % 256) * 256 + p0
    IN  <<(p1 \div 256) + (s \div Half), s % Half>>

\* u32 multiplication: the wrapped product and whether it overflowed.
overflowing_mul(a, b) ==
    LET ll  == mul16(a[2], b[2])
        lh  == mul16(a[2], b[1])
        hl  == mul16(a[1], b[2])
        hh  == mul16(a[1], b[1])
        mid == ll[1] + lh[2] + hl[2]
    IN  [val |-> <<mid % Half, ll[2]>>,
         ovf |-> mid >= Half \/ lh[1] # 0 \/ hl[1] # 0 \/ hh # <<0, 0>>]

\* u32 addition: the wrapped sum and whether it overflowed.
overflowing_add(a, b) ==
    LET lo == a[2] + b[2]
        hi == a[1] + b[1] + (lo \div Half)
    IN  [val |-> <<hi % Half, lo % Half>>, ovf |-> hi >= Half]

\* `x as usize` of a u32 that the model can hold as a number (below 2^31);
\* used only after a bounds test against the vector's length.
as_usize(a) == a[1] * Half + a[2]

\* Whether the usize of a u32 is a valid index of a vector of length len.
in_bounds(a, len) == a[1] = 0 /\ a[2] < len

\* ------------------------------------------------------------- Universe

\* struct Universe: the record of the fields.
Universe(w, h, cs, n, calc, draw) ==
    [width |-> w, height |-> h, cells |-> cs, count |-> n,
     calc_state |-> calc, draw_state |-> draw]

\* All vectors of w * h cells.
Grids(w, h) == [0 .. w * h - 1 -> Cell]

\* The vector whose live cells are exactly the indices in live.
GridOf(w, h, live) == [i \in 0 .. w * h - 1 |-> IF i \in live THEN Alive ELSE Dead]

\* get_index: (row * self.width + column) as usize, in u32 arithmetic.
\* ovf tells that the multiplication or the addition overflowed, which
\* panics in a build with overflow checks and wraps in one without.
get_index(u, row, column) ==
    LET m == overflowing_mul(row, as_u32(u.width))
        s == overflowing_add(m.val, column)
    IN  [idx |-> s.val, ovf |-> m.ovf \/ s.ovf]

\* The index of an in-range (row, column), as a number.
index_of(u, row, column) == as_usize(get_index(u, as_u32(row), as_u32(column)).idx)

\* The delta arrays [self.height - 1, 0, 1] and [self.width - 1, 0, 1].
deltas(n) == <<n - 1, 0, 1>>

\* neighbor_term skipping with `||` for `&&`: the whole row and column of the
\* cell are left out, and only the diagonals are counted.
neighbor_term_or(u, row, column, delta_row, delta_col) ==
    IF delta_row = 0 \/ delta_col = 0
    THEN 0
    ELSE u.cells[((row + delta_row) % u.height) * u.width
                 + ((column + delta_col) % u.width)]

\* One iteration of live_neighbor_count's inner loop: what it adds to count.
neighbor_term(u, row, column, delta_row, delta_col) ==
    IF delta_row = 0 /\ delta_col = 0
    THEN 0
    ELSE LET neighbor_row == (row + delta_row) % u.height
             neighbor_col == (column + delta_col) % u.width
         IN  u.cells[index_of(u, neighbor_row, neighbor_col)]

\* live_neighbor_count: the two nested loops over the delta arrays.
live_neighbor_count(u, row, column) ==
    LET dr == deltas(u.height)
        dc == deltas(u.width)
        t(i, j) == neighbor_term(u, row, column, dr[i], dc[j])
    IN  t(1, 1) + t(1, 2) + t(1, 3)
      + t(2, 1) + t(2, 2) + t(2, 3)
      + t(3, 1) + t(3, 2) + t(3, 3)

\* next_cell where a live cell survives with 3 neighbours only.
next_cell_three(cell, live_neighbors) ==
    IF live_neighbors = 3 THEN Alive ELSE Dead

\* The match of tick on (cell, live_neighbors), arm by arm.
next_cell(cell, live_neighbors) ==
    CASE cell = Alive /\ live_neighbors < 2 -> Dead
      [] cell = Alive /\ live_neighbors \in {2, 3} -> Alive
      [] cell = Alive /\ live_neighbors > 3 -> Dead
      [] cell = Dead /\ live_neighbors = 3 -> Alive
      [] OTHER -> cell

\* tick_cell updating in place: the neighbours are counted in next, which
\* holds the cells already updated in this tick.
tick_cell_in_place(u, next, row, col) ==
    LET v == [u EXCEPT !.cells = next]
        idx == row * u.width + col
    IN  [next EXCEPT ![idx] = next_cell(next[idx], live_neighbor_count(v, row, col))]

\* The body of tick's loops for one (row, col): reads self.cells, writes next.
tick_cell(u, next, row, col) ==
    LET idx == index_of(u, row, col)
        cell == u.cells[idx]
        live_neighbors == live_neighbor_count(u, row, col)
    IN  [next EXCEPT ![idx] = next_cell(cell, live_neighbors)]

\* tick's loops, `for row in 0..height { for col in 0..width`, from the
\* k-th iteration on (k counts the iterations in loop order).
RECURSIVE tick_loop(_, _, _)
tick_loop(u, next, k) ==
    IF k >= u.height * u.width
    THEN next
    ELSE tick_loop(u, tick_cell(u, next, k \div u.width, k % u.width), k + 1)

\* tick without its last statement, `self.count += 1`.
tick_count_kept(u) == [u EXCEPT !.cells = tick_loop(u, u.cells, 0)]

\* Universe::tick: next = cells.clone(); the loops; cells = next; count += 1.
tick(u) ==
    [u EXCEPT !.cells = tick_loop(u, u.cells, 0), !.count = u.count + 1]

\* is_calc_stop, is_draw_stop.
is_calc_stop(u) == ~u.calc_state

is_draw_stop(u) == ~u.draw_state

\* stop_draw, start_draw, stop_calc.
stop_draw(u) == [u EXCEPT !.draw_state = FALSE]

start_draw(u) == [u EXCEPT !.draw_state = TRUE]

stop_calc(u) == [u EXCEPT !.calc_state = FALSE]

\* change_calc_state, change_draw_state, and change_state calling both.
change_calc_state(u) == [u EXCEPT !.calc_state = ~u.calc_state]

\* change_draw_state switching drawing off instead of negating the flag.
change_draw_state_off(u) == [u EXCEPT !.draw_state = FALSE]

change_draw_state(u) == [u EXCEPT !.draw_state = ~u.draw_state]

\* change_state without its call of change_draw_state.
change_state_calc_only(u) == change_calc_state(u)

change_state(u) == change_draw_state(change_calc_state(u))

\* dead_all's loop `for i in 0..width * height { cells[i] = Dead }` from i on.
RECURSIVE dead_loop(_, _, _)
dead_loop(cs, i, n) ==
    IF i >= n THEN cs ELSE dead_loop([cs EXCEPT ![i] = Dead], i + 1, n)

\* dead_all calling change_calc_state() where it calls stop_calc().
dead_all_toggle(u) ==
    start_draw(change_calc_state(
        [u EXCEPT !.count = 0,
                  !.cells = dead_loop(u.cells, 0, u.width * u.height)]))

\* dead_all: count = 0; every cell Dead; stop_calc(); start_draw().
dead_all(u) ==
    start_draw(stop_calc(
        [u EXCEPT !.count = 0,
                  !.cells = dead_loop(u.cells, 0, u.width * u.height)]))

\* reset leaving the generation counter as it is.
reset_keep_count(u, fill) == [start_draw(u) EXCEPT !.cells = fill]

\* reset: count = 0; start_draw(); cells = gen_map(width, height), where
\* fill is the vector the random generator produced.
reset(u, fill) == [start_draw([u EXCEPT !.count = 0]) EXCEPT !.cells = fill]

\* set_cell storing with `self.cells.insert(index, cell)`: the cell goes in
\* at index and the cells from index on move up by one.
set_cell_insert(u, cell, c, r, checks) ==
    LET g == get_index(u, r, c)
        len == u.width * u.height
        at == as_usize(g.idx)
    IN  IF (checks /\ g.ovf) \/ ~in_bounds(g.idx, len)
        THEN [u |-> u, panic |-> TRUE]
        ELSE [u |-> [u EXCEPT !.cells =
                        [i \in 0 .. len |->
                            IF i < at THEN u.cells[i]
                            ELSE IF i = at THEN cell
                            ELSE u.cells[i - 1]]],
              panic |-> FALSE]

\* set_cell calling get_index(c, r) for get_index(r, c).
set_cell_swapped(u, cell, c, r, checks) ==
    LET g == get_index(u, c, r)
        len == u.width * u.height
    IN  IF (checks /\ g.ovf) \/ ~in_bounds(g.idx, len)
        THEN [u |-> u, panic |-> TRUE]
        ELSE [u |-> [u EXCEPT !.cells[as_usize(g.idx)] = cell], panic |-> FALSE]

\* set_cell: index = get_index(r, c); cells[index] = cell.  The index
\* computation panics on overflow in a build with overflow checks, and the
\* store panics when the index is not below the vector's length.
set_cell(u, cell, c, r, checks) ==
    LET g == get_index(u, r, c)
        len == u.width * u.height
    IN  IF (checks /\ g.ovf) \/ ~in_bounds(g.idx, len)
        THEN [u |-> u, panic |-> TRUE]
        ELSE [u |-> [u EXCEPT !.cells[as_usize(g.idx)] = cell], panic |-> FALSE]

\* draw_change testing the upper bounds with `>` for `>=`.
draw_change_gt(u, cell, c, r, checks) ==
    IF c > u.width \/ r > u.height
    THEN [u |-> u, panic |-> FALSE, draws |-> <<>>]
    ELSE LET s == set_cell(u, cell, as_u32(c), as_u32(r), checks)
         IN  [u |-> s.u, panic |-> s.panic,
              draws |-> IF s.panic THEN <<>> ELSE << <<cell, c, r>> >>]

\* draw_change(cell, hdc, c: i32, r: i32): the upper-bound test, then
\* set_cell(cell, c as u32, r as u32) and draw_rec(cell, c, r).
\* draws is the sequence of draw_rec calls made.
draw_change(u, cell, c, r, checks) ==
    IF c >= u.width \/ r >= u.height
    THEN [u |-> u, panic |-> FALSE, draws |-> <<>>]
    ELSE LET s == set_cell(u, cell, as_u32(c), as_u32(r), checks)
         IN  [u |-> s.u, panic |-> s.panic,
              draws |-> IF s.panic THEN <<>> ELSE << <<cell, c, r>> >>]

\* --------------------------------------------------------------- state

VARIABLES
    width, height, cells, count, calc_state, draw_state,  \* UNIVERSE's fields
    panicked,    \* a handler panicked: the process is gone
    last,        \* the message dispatched last, with its key and pointer state
    before,      \* calc_state and draw_state when the last handler started
    redraws,     \* WM_DRAWITEM messages the last handler sent
    cell_draws,  \* draw_rec calls the last handler made through draw_change
    pc,          \* tick_run's position: "idle", or the statement it runs next
    stop_draw_local,  \* tick_run's local variable stop_draw
    ev,          \* the window_proc call in progress: its stage and message
    readers,     \* the contexts holding a read guard of UNIVERSE
    writer,      \* the context holding the write guard of UNIVERSE, or "none"
    frame,       \* what the WM_DRAWITEM in progress has drawn so far
    committed,   \* what a redraw shows of UNIVERSE as the last write guard left it
    sent         \* tick_run has sent WM_DRAWITEM since draw_state last became true

vars == <<width, height, cells, count, calc_state, draw_state,
          panicked, last, before, redraws, cell_draws,
          pc, stop_draw_local, ev, readers, writer, frame, committed, sent>>

\* The variables of the interleaved execution; the message loop alone, which
\* runs every handler to its end, leaves them as they are.
conc == <<pc, stop_draw_local, ev, readers, writer, frame, committed, sent>>

\* The outputs recorded of the handler the message loop ran last.
hist == <<panicked, last, before, redraws, cell_draws>>

\* The fields of UNIVERSE.
univ == <<width, height, cells, count, calc_state, draw_state>>

\* The Universe behind the lock, as a record.
U == Universe(width, height, cells, count, calc_state, draw_state)

\* The Universe after the step is u.
Store(u) ==
    /\ width' = u.width
    /\ height' = u.height
    /\ cells' = u.cells
    /\ count' = u.count
    /\ calc_state' = u.calc_state
    /\ draw_state' = u.draw_state

\* The two flags of u.
Flags(u) == [calc_state |-> u.calc_state, draw_state |-> u.draw_state]

\* The Universe is u (used by the initial predicates).
Holds(u) ==
    /\ width = u.width
    /\ height = u.height
    /\ cells = u.cells
    /\ count = u.count
    /\ calc_state = u.calc_state
    /\ draw_state = u.draw_state

\* A message and the device state its handler reads: the keys and buttons
\* GetAsyncKeyState reports down, and the pointer position of l_param.
Msg(m, down, x, y) == [msg |-> m, down |-> down, x |-> x, y |-> y, cell |-> Dead]

\* A direct call of a Universe method with a cell and a position (c, r);
\* the method's name stands where a message's does.
Call(m, cell, c, r) == [msg |-> m, down |-> {}, x |-> c, y |-> r, cell |-> cell]

\* Universe::new: width = height = CELL_SIZE, cells = gen_map(..) = fill,
\* count 0, both flags true.
new(fill) == Universe(CELL_SIZE, CELL_SIZE, fill, 0, TRUE, TRUE)

\* The fills the interactive specification draws from gen_map.
Fills(w, h) == {GridOf(w, h, live) : live \in SUBSET (0 .. MaxFill - 1)}

\* No window_proc call is in progress.
NoCall == [stage |-> "idle", m |-> Msg("none", {}, 0, 0)]

\* No redraw has drawn anything.
NoFrame == [cells |-> <<>>, title |-> -1]

\* The state after lazy_static's Universe::new() with the fill u.cells:
\* no handler has run, nobody holds the lock.
Constructed(u) ==
    /\ Holds(u)
    /\ panicked = FALSE
    /\ last = Msg("new", {}, 0, 0)
    /\ before = Flags(u)
    /\ redraws = 0
    /\ cell_draws = <<>>
    /\ pc = "idle"
    /\ stop_draw_local = FALSE
    /\ ev = NoCall
    /\ readers = {}
    /\ writer = "none"
    /\ frame = NoFrame
    /\ sent = FALSE

\* The constructed state of the message loop, which records no redraws.
Started(u) == Constructed(u) /\ committed = NoFrame

\* ------------------------------------------------------ window_proc

\* WM_KEYDOWN: for each of F5, F4, F2 that GetAsyncKeyState reports down,
\* in this order: reset(), dead_all(), change_state().
key_down_handler(u, down, fill) ==
    LET u1 == IF "F5" \in down THEN reset(u, fill) ELSE u
        u2 == IF "F4" \in down THEN dead_all(u1) ELSE u1
    IN  IF "F2" \in down THEN change_state(u2) ELSE u2

\* The pointer position in cells: x_pos / (COL_LEN + 1) as u16 and
\* y_pos / (ROW_LEN + 1) as u16, of the u16 halves of l_param.
pointer_col(x_pos) == x_pos \div (COL_LEN + 1)

pointer_row(y_pos) == y_pos \div (ROW_LEN + 1)

\* pointer_edit without the is_calc_stop() test.
pointer_edit_unguarded(r, cell, x_pos, y_pos, stop, checks) ==
    IF r.panic
    THEN r
    ELSE LET u1 == IF stop THEN stop_draw(r.u) ELSE r.u
             d  == draw_change(u1, cell, x_pos \div (COL_LEN + 1),
                               y_pos \div (ROW_LEN + 1), checks)
         IN  [u |-> d.u, panic |-> d.panic, draws |-> r.draws \o d.draws]

\* The edit block the four pointer handlers share: under is_calc_stop(),
\* take the write lock, stop_draw() when the handler is a button-down
\* (stop), then draw_change(cell, hdc, col, row).
pointer_edit(r, cell, x_pos, y_pos, stop, checks) ==
    IF r.panic \/ ~is_calc_stop(r.u)
    THEN r
    ELSE LET u1 == IF stop THEN stop_draw(r.u) ELSE r.u
             d  == draw_change(u1, cell, pointer_col(x_pos), pointer_row(y_pos), checks)
         IN  [u |-> d.u, panic |-> d.panic, draws |-> r.draws \o d.draws]

\* A handler's running result before its first statement.
Entry(u) == [u |-> u, panic |-> FALSE, draws |-> <<>>]

\* WM_MOUSEMOVE: the Alive edit if the left button is down, then the Dead
\* edit if the right button is down; neither calls stop_draw().
mouse_move_handler(u, down, x_pos, y_pos, checks) ==
    LET r1 == IF "L" \in down
              THEN pointer_edit(Entry(u), Alive, x_pos, y_pos, FALSE, checks)
              ELSE Entry(u)
    IN  IF "R" \in down
        THEN pointer_edit(r1, Dead, x_pos, y_pos, FALSE, checks)
        ELSE r1

\* WM_LBUTTONDOWN and WM_RBUTTONDOWN.
lbutton_down_handler(u, x_pos, y_pos, checks) ==
    pointer_edit(Entry(u), Alive, x_pos, y_pos, TRUE, checks)

rbutton_down_handler(u, x_pos, y_pos, checks) ==
    pointer_edit(Entry(u), Dead, x_pos, y_pos, TRUE, checks)

\* WM_LBUTTONUP and WM_RBUTTONUP: start_draw().
button_up_handler(u) == start_draw(u)

\* WM_DRAWITEM's redraw of u: draw_rec of u.cells[u.get_index(r, c)] at
\* (c, r) for c and r in 0..CELL_SIZE, and the title with u.count.
draw_item(u) ==
    [cells |-> [p \in (0 .. CELL_SIZE - 1) \X (0 .. CELL_SIZE - 1) |->
                    u.cells[index_of(u, p[2], p[1])]],
     title |-> u.count]

\* ----------------------------------------------------------- tick_run

\* Lines 438-443: tick() unless is_calc_stop(), else stop_draw = true.
tick_run_calc(u) ==
    IF ~is_calc_stop(u)
    THEN [u |-> tick(u), stop_draw |-> FALSE]
    ELSE [u |-> u, stop_draw |-> TRUE]

\* Lines 444-446: the number of WM_DRAWITEM messages sent.
tick_run_send(u) == IF ~is_draw_stop(u) THEN 1 ELSE 0

\* tick_run without its last block: drawing is never stopped.
tick_run_stop_never(u, stop) == u

\* Lines 447-451: stop_draw() if stop_draw is set and drawing is on.
tick_run_stop(u, stop) ==
    IF stop /\ ~is_draw_stop(u) THEN stop_draw(u) ELSE u

\* tick_run, run to its end by the message loop's thread.
tick_run(u) ==
    LET c == tick_run_calc(u)
    IN  [u |-> tick_run_stop(c.u, c.stop_draw), sent |-> tick_run_send(c.u)]

\* ------------------------------------------- the program (message loop)

\* Pointer positions (pixels, the u16 halves of l_param) the events carry:
\* two cells of the grid, the column just past the last one, the row just
\* past the last one, and the largest u16 (a negative device coordinate).
Pointers ==
    { <<0, 0>>,
      <<COL_LEN + 1 + 5, ROW_LEN + 1 + 5>>,
      <<(COL_LEN + 1) * width, 0>>,
      <<0, (ROW_LEN + 1) * height>>,
      <<Half - 1, Half - 1>> }

\* The builds of the program: with overflow checks (TRUE, the debug
\* profile) and without (FALSE, the release profile).  A handler's outcomes
\* are those of either build.
Builds == BOOLEAN

Init == \E fill \in Fills(CELL_SIZE, CELL_SIZE) : Started(new(fill))

\* What a handler that ended with result r (u, panic, draws) leaves.
Handled(r, m) ==
    /\ Store(r.u)
    /\ panicked' = r.panic
    /\ last' = m
    /\ before' = Flags(U)
    /\ redraws' = 0
    /\ cell_draws' = r.draws
    /\ UNCHANGED conc

\* The timer fires and DispatchMessageW calls tick_run.
Timer ==
    /\ ~panicked
    /\ is_calc_stop(U) \/ count < MaxCount
    /\ \E t \in {tick_run(U)} :
         /\ Store(t.u)
         /\ redraws' = t.sent
    /\ last' = Msg("WM_TIMER", {}, 0, 0)
    /\ before' = Flags(U)
    /\ cell_draws' = <<>>
    /\ UNCHANGED panicked
    /\ UNCHANGED conc

\* WM_KEYDOWN with the keys `down` held.
KeyDown ==
    /\ ~panicked
    /\ \E down \in SUBSET {"F5", "F4", "F2"} :
         \E fill \in (IF "F5" \in down THEN Fills(width, height) ELSE {cells}) :
            /\ \E u \in {key_down_handler(U, down, fill)} : Store(u)
            /\ last' = Msg("WM_KEYDOWN", down, 0, 0)
    /\ before' = Flags(U)
    /\ redraws' = 0
    /\ cell_draws' = <<>>
    /\ UNCHANGED panicked
    /\ UNCHANGED conc

\* WM_MOUSEMOVE with the buttons `down` held.
MouseMove ==
    /\ ~panicked
    /\ \E down \in SUBSET {"L", "R"}, p \in Pointers :
         \E r \in {mouse_move_handler(U, down, p[1], p[2], checks) : checks \in Builds} :
            Handled(r, Msg("WM_MOUSEMOVE", down, p[1], p[2]))

LButtonDown ==
    /\ ~panicked
    /\ \E p \in Pointers :
         \E r \in {lbutton_down_handler(U, p[1], p[2], checks) : checks \in Builds} :
            Handled(r, Msg("WM_LBUTTONDOWN", {"L"}, p[1], p[2]))

RButtonDown ==
    /\ ~panicked
    /\ \E p \in Pointers :
         \E r \in {rbutton_down_handler(U, p[1], p[2], checks) : checks \in Builds} :
            Handled(r, Msg("WM_RBUTTONDOWN", {"R"}, p[1], p[2]))

LButtonUp ==
    /\ ~panicked
    /\ \E r \in {Entry(button_up_handler(U))} :
         Handled(r, Msg("WM_LBUTTONUP", {}, 0, 0))

RButtonUp ==
    /\ ~panicked
    /\ \E r \in {Entry(button_up_handler(U))} :
         Handled(r, Msg("WM_RBUTTONUP", {}, 0, 0))

Next ==
    \/ Timer
    \/ KeyDown
    \/ MouseMove
    \/ LButtonDown
    \/ RButtonDown
    \/ LButtonUp
    \/ RButtonUp

Spec == Init /\ [][Next]_vars

\* ------------------------------------------------ the grid's tick alone

\* The indices of cell (0, 0) and of the eight cells around it on the torus.
Around00(w, h) == {r * w + c : r \in {h - 1, 0, 1}, c \in {w - 1, 0, 1}}

\* The grids tick is applied to: every grid of the model's size whose live
\* cells lie among (0, 0) and the eight cells around it, across the edges
\* (every grid, when the side is 3), and the 5x5 grids whose live cells lie
\* among row 2, columns 1 to 3.
GridInputs ==
    {new(GridOf(CELL_SIZE, CELL_SIZE, live)) :
        live \in SUBSET Around00(CELL_SIZE, CELL_SIZE)}
    \cup {Universe(5, 5, GridOf(5, 5, live), 0, TRUE, TRUE) :
            live \in SUBSET {2 * 5 + 1, 2 * 5 + 2, 2 * 5 + 3}}

InitGrid == \E u \in GridInputs : Started(u)

\* A call of Universe::tick.
CallTick ==
    /\ count < MaxCount
    /\ \E u \in {tick(U)} : Store(u)
    /\ last' = Call("tick", Dead, 0, 0)
    /\ before' = Flags(U)
    /\ UNCHANGED <<panicked, redraws, cell_draws>>
    /\ UNCHANGED conc

NextGrid == CallTick

SpecGrid == InitGrid /\ [][NextGrid]_vars

\* ----------------------------------------------- draw_change alone

\* The coordinates (i32) draw_change is called with.
EditCoords(n) == (-2 .. n + 1) \cup {-Half}

InitEdit ==
    \E fill \in Fills(CELL_SIZE, CELL_SIZE), calc \in BOOLEAN, draw \in BOOLEAN :
        Started(Universe(CELL_SIZE, CELL_SIZE, fill, 0, calc, draw))

\* One call of draw_change(cell, hdc, c, r) on the constructed Universe, in
\* a build with (checks) or without overflow checks.
CallDrawChange ==
    /\ last.msg = "new"
    /\ \E cell \in Cell, c \in EditCoords(width), r \in EditCoords(height) :
         \E d \in {draw_change(U, cell, c, r, checks) : checks \in Builds} :
            Handled(d, Call("draw_change", cell, c, r))

NextEdit == CallDrawChange

SpecEdit == InitEdit /\ [][NextEdit]_vars

\* ------------------------------ tick_run and window_proc interleaved

\* RwLock::read returning although a writer holds the lock.
can_read_always(w) == TRUE

\* RwLock: read() returns while no context holds the write guard (w), and
\* write() while no context holds any guard (rs are the readers).
can_read(w) == w = "none"

can_write(rs, w) == rs = {} /\ w = "none"

\* A lock request of a kind ("read", "write", or "none" for a step that
\* takes no guard) returns at once.
granted(kind, rs, w) ==
    CASE kind = "read" -> can_read(w)
      [] kind = "write" -> can_write(rs, w)
      [] OTHER -> TRUE

\* What the statement tick_run runs next (at p, with its local stop_draw)
\* asks of the lock: read() in the three tests and in WM_DRAWITEM, write()
\* for tick() and stop_draw().
driver_needs(p, stop) ==
    CASE p \in {"calc", "send", "draw"} -> "read"
      [] p = "stop" /\ stop -> "read"
      [] p \in {"tick", "stop_write"} -> "write"
      [] OTHER -> "none"

\* What the window_proc call in progress asks of the lock next.
event_needs(stage) == IF stage = "write" THEN "write" ELSE "none"

\* The read guard of a condition kept until the end of the `if` block.
guard_kept(rs, ctx) == rs \cup {ctx}

\* The readers after the condition of `if UNIVERSE.read().unwrap().is_..()`
\* in context ctx: the guard is a temporary of the condition and is dropped
\* before the block is entered.
guard_dropped(rs, ctx) == rs \ {ctx}

\* The messages window_proc is called with while tick_run is in progress:
\* one key or one button held, the pointer on cell (0, 0).
ConcMsgs ==
    {Msg("WM_KEYDOWN", {k}, 0, 0) : k \in {"F5", "F4", "F2"}}
    \cup {Msg("WM_MOUSEMOVE", {b}, 0, 0) : b \in {"L", "R"}}
    \cup {Msg("WM_LBUTTONDOWN", {"L"}, 0, 0), Msg("WM_RBUTTONDOWN", {"R"}, 0, 0),
          Msg("WM_LBUTTONUP", {}, 0, 0), Msg("WM_RBUTTONUP", {}, 0, 0)}

\* The handlers that test is_calc_stop() under a read guard before they take
\* the write guard.
needs_pause(m) == m.msg \in {"WM_MOUSEMOVE", "WM_LBUTTONDOWN", "WM_RBUTTONDOWN"}

\* The cell a pointer handler edits with: Alive for the left button, Dead
\* for the right.
edit_cell(m) == IF "L" \in m.down THEN Alive ELSE Dead

\* What the handler of m has done to u under its write guard before its
\* last statement: reset's count = 0 and start_draw(), dead_all's count = 0
\* and loop, change_state's change_calc_state(), a button-down's stop_draw().
write_head(u, m) ==
    CASE m.msg = "WM_KEYDOWN" /\ m.down = {"F5"} -> start_draw([u EXCEPT !.count = 0])
      [] m.msg = "WM_KEYDOWN" /\ m.down = {"F4"} ->
            [u EXCEPT !.count = 0,
                      !.cells = dead_loop(u.cells, 0, u.width * u.height)]
      [] m.msg = "WM_KEYDOWN" /\ m.down = {"F2"} -> change_calc_state(u)
      [] m.msg \in {"WM_LBUTTONDOWN", "WM_RBUTTONDOWN"} -> stop_draw(u)
      [] OTHER -> u

\* The rest of the handler of m, up to the release of its write guard:
\* reset's cells = gen_map(..) (fill), dead_all's stop_calc() and
\* start_draw(), change_state's change_draw_state(), a pointer handler's
\* draw_change, a button release's start_draw().
write_tail(u, m, fill) ==
    CASE m.msg = "WM_KEYDOWN" /\ m.down = {"F5"} -> [u EXCEPT !.cells = fill]
      [] m.msg = "WM_KEYDOWN" /\ m.down = {"F4"} -> start_draw(stop_calc(u))
      [] m.msg = "WM_KEYDOWN" /\ m.down = {"F2"} -> change_draw_state(u)
      [] needs_pause(m) ->
            draw_change(u, edit_cell(m), pointer_col(m.x), pointer_row(m.y), TRUE).u
      [] OTHER -> start_draw(u)

InitConc ==
    \E fill \in Fills(CELL_SIZE, CELL_SIZE) :
        Constructed(new(fill)) /\ committed = draw_item(new(fill))

\* tick_run, or the window_proc call, gets the guard its next statement
\* asks for.
DriverReady == granted(driver_needs(pc, stop_draw_local), readers, writer)

EventReady == granted(event_needs(ev.stage), readers, writer)

\* A write guard is released: a redraw from now on shows the Universe as
\* this step leaves it.
Commit == committed' = draw_item(U')

\* sent is reset by a step that takes draw_state from false to true.
Rearmed == sent' = IF ~draw_state /\ draw_state' THEN FALSE ELSE sent

\* The timer fires and tick_run is entered: `let mut stop_draw = false`.
TimerFires ==
    /\ pc = "idle"
    /\ count < MaxCount
    /\ pc' = "calc"
    /\ stop_draw_local' = FALSE
    /\ sent' = FALSE
    /\ UNCHANGED <<univ, hist, ev, readers, writer, frame, committed>>

\* Line 438: `if !UNIVERSE.read().unwrap().is_calc_stop()`; line 441:
\* `stop_draw = true` in the else branch.
CalcTest ==
    /\ pc = "calc"
    /\ DriverReady
    /\ readers' = guard_dropped(readers \cup {"driver"}, "driver")
    /\ IF ~is_calc_stop(U)
       THEN pc' = "tick" /\ UNCHANGED stop_draw_local
       ELSE pc' = "send" /\ stop_draw_local' = TRUE
    /\ UNCHANGED <<univ, hist, ev, writer, frame, committed, sent>>

\* Line 439: `UNIVERSE.write().unwrap().tick()` up to `self.cells = next`.
TickWrite ==
    /\ pc = "tick"
    /\ DriverReady
    /\ writer' = "driver"
    /\ \E u \in {tick(U)} : cells' = u.cells
    /\ pc' = "count"
    /\ UNCHANGED <<width, height, count, calc_state, draw_state>>
    /\ UNCHANGED <<hist, stop_draw_local, ev, readers, frame, committed, sent>>

\* tick's `self.count += 1` and the release of the write guard.
TickCount ==
    /\ pc = "count"
    /\ DriverReady
    /\ count' = count + 1
    /\ writer' = "none"
    /\ pc' = "send"
    /\ UNCHANGED <<width, height, cells, calc_state, draw_state>>
    /\ Commit
    /\ UNCHANGED <<hist, stop_draw_local, ev, readers, frame, sent>>

\* Line 444: `if !UNIVERSE.read().unwrap().is_draw_stop()`, and line 445's
\* SendMessageW(hwnd, WM_DRAWITEM, 0, 0) entering window_proc.
SendTest ==
    /\ pc = "send"
    /\ DriverReady
    /\ readers' = guard_dropped(readers \cup {"driver"}, "driver")
    /\ IF tick_run_send(U) = 1
       THEN pc' = "draw" /\ sent' = TRUE
       ELSE pc' = "stop" /\ UNCHANGED sent
    /\ UNCHANGED <<univ, hist, stop_draw_local, ev, writer, frame, committed>>

\* WM_DRAWITEM: `let u = UNIVERSE.read().unwrap()` and the loops drawing
\* the cells.
DrawItemCells ==
    /\ pc = "draw"
    /\ DriverReady
    /\ readers' = readers \cup {"driver"}
    /\ frame' = [cells |-> draw_item(U).cells, title |-> NoFrame.title]
    /\ pc' = "title"
    /\ UNCHANGED <<univ, hist, stop_draw_local, ev, writer, committed, sent>>

\* WM_DRAWITEM: draw_title with u.count; the guard u is dropped at the end
\* of the block and SendMessageW returns to tick_run.
DrawItemTitle ==
    /\ pc = "title"
    /\ DriverReady
    /\ frame' = [frame EXCEPT !.title = draw_item(U).title]
    /\ readers' = readers \ {"driver"}
    /\ pc' = "stop"
    /\ UNCHANGED <<univ, hist, stop_draw_local, ev, writer, committed, sent>>

\* Lines 447-448: `if stop_draw { if !UNIVERSE.read().unwrap().is_draw_stop()`;
\* tick_run returns when either test fails.
StopTest ==
    /\ pc = "stop"
    /\ DriverReady
    /\ IF stop_draw_local
       THEN /\ readers' = guard_dropped(readers \cup {"driver"}, "driver")
            /\ pc' = IF ~is_draw_stop(U) THEN "stop_write" ELSE "idle"
       ELSE pc' = "idle" /\ UNCHANGED readers
    /\ stop_draw_local' = (stop_draw_local /\ pc' # "idle")
    /\ frame' = NoFrame
    /\ UNCHANGED <<univ, hist, ev, writer, committed, sent>>

\* Line 449: `UNIVERSE.write().unwrap().stop_draw()`, and tick_run returns.
StopWrite ==
    /\ pc = "stop_write"
    /\ DriverReady
    /\ \E u \in {stop_draw(U)} : Store(u)
    /\ Commit
    /\ pc' = "idle"
    /\ stop_draw_local' = FALSE
    /\ UNCHANGED <<hist, ev, readers, writer, frame, sent>>

\* The message loop calls window_proc with a key or pointer message; a
\* pointer handler tests is_calc_stop() under a read guard and returns when
\* the simulation runs.
Dispatch ==
    /\ ev.stage = "idle"
    /\ \E m \in ConcMsgs :
         IF needs_pause(m)
         THEN /\ can_read(writer)
              /\ readers' = guard_dropped(readers \cup {"event"}, "event")
              /\ ev' = IF is_calc_stop(U) THEN [stage |-> "write", m |-> m] ELSE NoCall
         ELSE /\ ev' = [stage |-> "write", m |-> m]
              /\ UNCHANGED readers
    /\ UNCHANGED <<univ, hist, pc, stop_draw_local, writer, frame, committed, sent>>

\* The handler's `UNIVERSE.write().unwrap()` returns the guard, and the
\* handler runs up to its last statement.
WriteAcquire ==
    /\ ev.stage = "write"
    /\ EventReady
    /\ writer' = "event"
    /\ \E u \in {write_head(U, ev.m)} : Store(u)
    /\ ev' = [ev EXCEPT !.stage = "tail"]
    /\ Rearmed
    /\ UNCHANGED <<hist, pc, stop_draw_local, readers, frame, committed>>

\* The handler's last statement and the release of its write guard.
WriteRelease ==
    /\ ev.stage = "tail"
    /\ EventReady
    /\ \E fill \in (IF "F5" \in ev.m.down THEN Fills(width, height) ELSE {cells}) :
         \E u \in {write_tail(U, ev.m, fill)} : Store(u)
    /\ writer' = "none"
    /\ ev' = NoCall
    /\ Commit
    /\ Rearmed
    /\ UNCHANGED <<hist, pc, stop_draw_local, readers, frame>>

NextConc ==
    \/ TimerFires
    \/ CalcTest
    \/ TickWrite
    \/ TickCount
    \/ SendTest
    \/ DrawItemCells
    \/ DrawItemTitle
    \/ StopTest
    \/ StopWrite
    \/ Dispatch
    \/ WriteAcquire
    \/ WriteRelease

SpecConc == InitConc /\ [][NextConc]_vars

\* ------------------------------------------------------------ the claims

\* The cell of the vector cs at (row, col) of a grid w wide.
CellAt(cs, w, row, col) == cs[row * w + col]

\* The eight offsets of the Moore neighbourhood.
Offsets == ({-1, 0, 1} \X {-1, 0, 1}) \ {<<0, 0>>}

\* The number of offsets whose cell, on the torus, is Alive in cs.
LiveAround(cs, w, h, row, col) ==
    Cardinality({d \in Offsets :
        CellAt(cs, w, (row + d[1]) % h, (col + d[2]) % w) = Alive})

\* The rule table on a cell c with n live neighbours.
Rule(c, n) ==
    IF c = Alive
    THEN (IF n = 2 \/ n = 3 THEN Alive ELSE Dead)
    ELSE (IF n = 3 THEN Alive ELSE Dead)

\* The step is a call of Universe::tick.
IsTick == last'.msg = "tick"

\* C1: one tick replaces every cell by the rule applied to the cell's own
\* pre-tick state and its pre-tick live-neighbour count; the new grid is
\* determined by the pre-tick grid alone.
C1_TickAppliesRule ==
    [][IsTick =>
        /\ DOMAIN cells' = 0 .. width * height - 1
        /\ \A row \in 0 .. height - 1, col \in 0 .. width - 1 :
             CellAt(cells', width, row, col)
               = Rule(CellAt(cells, width, row, col),
                      LiveAround(cells, width, height, row, col))]_vars

\* The horizontal and the vertical blinker of the 5x5 grid.
BlinkerRow == GridOf(5, 5, {2 * 5 + 1, 2 * 5 + 2, 2 * 5 + 3})

BlinkerCol == GridOf(5, 5, {1 * 5 + 2, 2 * 5 + 2, 3 * 5 + 2})

\* C1's witness: two ticks of the 5x5 grid have turned the blinker and turned
\* it back (cells were born, died and survived in each).
C1_Witness ==
    /\ last.msg = "tick"
    /\ width = 5 /\ height = 5
    /\ count = 2
    /\ cells = BlinkerRow

\* C2: live_neighbor_count of every in-range (row, col) is in 0..8 and is the
\* number of the eight offsets whose cell on the torus is Alive; cell (0, 0)
\* counts the cells (height-1, width-1), (height-1, 0) and (0, width-1).
C2_NeighborCountWraps ==
    /\ \A row \in 0 .. height - 1, col \in 0 .. width - 1 :
         /\ live_neighbor_count(U, row, col) \in 0 .. 8
         /\ live_neighbor_count(U, row, col)
              = LiveAround(cells, width, height, row, col)
    /\ live_neighbor_count(U, 0, 0)
         >= CellAt(cells, width, height - 1, width - 1)
            + CellAt(cells, width, height - 1, 0)
            + CellAt(cells, width, 0, width - 1)

\* C2's witness: the three cells across the edges from (0, 0) are the only
\* live cells, and (0, 0) counts 3.
C2_Witness ==
    /\ cells = GridOf(width, height,
                      {(height - 1) * width + (width - 1), (height - 1) * width,
                       width - 1})
    /\ width = CELL_SIZE
    /\ live_neighbor_count(U, 0, 0) = 3

\* The step is the first tick of the 5x5 grid holding the horizontal blinker.
BlinkerTick == IsTick /\ width = 5 /\ height = 5 /\ cells = BlinkerRow

\* C3 as stated: after the blinker's tick, column 2 of rows 1 and 3 is
\* Alive and row 2 is Dead at columns 1, 2 and 3.
C3_BlinkerAsStated ==
    [][BlinkerTick =>
        /\ CellAt(cells', 5, 1, 2) = Alive
        /\ CellAt(cells', 5, 3, 2) = Alive
        /\ CellAt(cells', 5, 2, 1) = Dead
        /\ CellAt(cells', 5, 2, 2) = Dead
        /\ CellAt(cells', 5, 2, 3) = Dead]_vars

\* C3, amended: after the blinker's tick, column 2 of rows 1, 2 and 3 is
\* Alive and every other cell is Dead: row 2 is Dead at columns 1 and 3 and
\* stays Alive at column 2.
C3_BlinkerTurns ==
    [][BlinkerTick =>
        /\ \A row \in 0 .. 4, col \in 0 .. 4 :
             CellAt(cells', 5, row, col)
               = (IF col = 2 /\ row \in {1, 2, 3} THEN Alive ELSE Dead)]_vars

\* C3's witness: the 5x5 grid after one tick holds the vertical blinker.
C3_Witness ==
    /\ last.msg = "tick"
    /\ width = 5 /\ height = 5
    /\ count = 1
    /\ cells = BlinkerCol

\* The step is tick_run, called for the timer.
IsTimer == last'.msg = "WM_TIMER"

\* The fields of the Universe are left as they are.
UniverseUnchanged ==
    UNCHANGED <<width, height, cells, count, calc_state, draw_state>>

\* C4: a driver tick that starts paused and armed leaves the cells and the
\* generation unchanged, sends exactly one redraw and ends disarmed; one that
\* starts paused and disarmed sends no redraw and changes nothing.
C4_PausedTick ==
    [][(IsTimer /\ ~calc_state) =>
        /\ cells' = cells /\ count' = count
        /\ width' = width /\ height' = height
        /\ calc_state' = calc_state
        /\ draw_state => (redraws' = 1 /\ ~draw_state')
        /\ ~draw_state => (redraws' = 0 /\ UniverseUnchanged)]_vars

\* C4's witness: a tick that started paused and armed has sent its one
\* redraw and left drawing off.
C4_Witness ==
    /\ last.msg = "WM_TIMER"
    /\ ~before.calc_state /\ before.draw_state
    /\ redraws = 1
    /\ ~calc_state /\ ~draw_state

\* The last message was WM_KEYDOWN with exactly the keys `down` held, and
\* its handler took the simulation from running to paused.
PausedBy(down) ==
    /\ last.msg = "WM_KEYDOWN" /\ last.down = down
    /\ before.calc_state /\ ~calc_state

\* C5 as stated: after the simulation is paused by the pause hotkey or by
\* clear, the next driver tick sends exactly one redraw and disarms.
C5_PauseAsStated ==
    [][((PausedBy({"F2"}) \/ PausedBy({"F4"})) /\ IsTimer) =>
        (redraws' = 1 /\ ~draw_state')]_vars

\* C5, amended: paused by clear, the next driver tick sends exactly one
\* redraw; paused by the pause hotkey, which negates renderArmed too, the
\* next driver tick sends no redraw when renderArmed was true before the
\* hotkey and exactly one when it was false; after that tick rendering is
\* disarmed, a paused and disarmed tick sends no redraw and stays disarmed,
\* and renderArmed becomes true again only in a key or button-release handler.
C5_PauseThenIdle ==
    [][/\ (IsTimer /\ PausedBy({"F4"})) => (redraws' = 1 /\ ~draw_state')
       /\ (IsTimer /\ PausedBy({"F2"})) =>
            /\ redraws' = (IF before.draw_state THEN 0 ELSE 1)
            /\ ~draw_state'
       /\ (IsTimer /\ ~calc_state /\ ~draw_state) =>
            (redraws' = 0 /\ ~draw_state')
       /\ (~draw_state /\ draw_state') =>
            last'.msg \in {"WM_KEYDOWN", "WM_LBUTTONUP", "WM_RBUTTONUP"}]_vars

\* C5's witness: the pause hotkey alone has paused a running, armed
\* simulation, and rendering is disarmed at once.
C5_Witness ==
    /\ PausedBy({"F2"})
    /\ before.draw_state
    /\ ~draw_state

\* The pointer messages whose handlers edit.
PointerMsgs == {"WM_MOUSEMOVE", "WM_LBUTTONDOWN", "WM_RBUTTONDOWN"}

\* C6: a pointer event writes a cell only if the simulation is paused; while
\* it runs, every pointer event leaves all cells unchanged (and draws none).
C6_EditOnlyWhenPaused ==
    [][last'.msg \in PointerMsgs =>
        /\ (cells' # cells \/ cell_draws' # <<>>) => (~calc_state /\ ~calc_state')
        /\ calc_state => (cells' = cells /\ cell_draws' = <<>>)]_vars

\* C6's witness: the left button went down on the dead cell (0, 0) while the
\* simulation ran, and the cell is still dead.
C6_Witness ==
    /\ last.msg = "WM_LBUTTONDOWN" /\ last.x = 0 /\ last.y = 0
    /\ before.calc_state /\ calc_state
    /\ cells[0] = Dead
    /\ cell_draws = <<>>

\* The step is a call draw_change(cell, hdc, c, r); c and r are last'.x, last'.y.
IsEdit == last'.msg = "draw_change"

\* C7: an edit with col >= width or row >= height is a silent no-op: no
\* cell, counter or flag changes, nothing is drawn, nothing fails.
C7_UpperOutOfRangeNoOp ==
    [][(IsEdit /\ (last'.x >= width \/ last'.y >= height)) =>
        /\ UniverseUnchanged
        /\ cell_draws' = <<>>
        /\ ~panicked']_vars

\* C7's witness: edit(Alive, col = width, row = 0) returned and drew nothing.
C7_Witness ==
    /\ last = Call("draw_change", Alive, width, 0)
    /\ cell_draws = <<>>
    /\ ~panicked

\* C8: an edit with a negative column or row changes no cell (it is rejected,
\* never wrapped by the u32 conversion onto a cell of the grid).
C8_NegativeEditRejected ==
    [][(IsEdit /\ (last'.x < 0 \/ last'.y < 0)) => cells' = cells]_vars

\* The last message was WM_KEYDOWN with F4 alone held: clear.
IsClear == last.msg = "WM_KEYDOWN" /\ last.down = {"F4"}

\* C9: clear leaves every cell Dead, generation 0, running false and
\* renderArmed true, width and height unchanged; a second clear right after
\* the first leaves the same state.
C9_Clear ==
    [][IsClear' =>
        /\ cells' = [i \in 0 .. width * height - 1 |-> Dead]
        /\ count' = 0
        /\ ~calc_state' /\ draw_state'
        /\ width' = width /\ height' = height
        /\ IsClear => U' = U]_vars

\* C9's witness: clear has stopped a running simulation.
C9_Witness ==
    /\ IsClear
    /\ before.calc_state
    /\ ~calc_state /\ draw_state
    /\ count = 0

\* The last message was WM_KEYDOWN with F2 alone held: togglePauseAndRender.
IsToggle == last.msg = "WM_KEYDOWN" /\ last.down = {"F2"}

\* C10: togglePauseAndRender negates running and renderArmed and leaves the
\* cells and the generation unchanged; applied a second time right after
\* the first, it returns both flags to their values before the first.
C10_Toggle ==
    [][IsToggle' =>
        /\ calc_state' = ~calc_state
        /\ draw_state' = ~draw_state
        /\ cells' = cells /\ count' = count
        /\ IsToggle => Flags(U)' = before]_vars

\* C10's witness: the hotkey has taken the initial running, armed state to
\* paused and disarmed.
C10_Witness ==
    /\ IsToggle
    /\ before.calc_state /\ before.draw_state
    /\ ~calc_state /\ ~draw_state

\* The last message was WM_KEYDOWN with F5 alone held: reset.
IsReset == last.msg = "WM_KEYDOWN" /\ last.down = {"F5"}

\* C11: reset sets generation to 0 and renderArmed to true, replaces the
\* cells by a fill of the same length, and leaves running, width and height
\* unchanged.
C11_Reset ==
    [][IsReset' =>
        /\ count' = 0
        /\ draw_state'
        /\ cells' \in [DOMAIN cells -> Cell]
        /\ calc_state' = calc_state
        /\ width' = width /\ height' = height]_vars

\* C11's witness: reset has re-armed a paused, disarmed simulation, which
\* stays paused, and the new fill holds one live cell.
C11_Witness ==
    /\ IsReset
    /\ ~before.calc_state /\ ~before.draw_state
    /\ ~calc_state /\ draw_state
    /\ count = 0
    /\ cells = GridOf(width, height, {0})

\* C12: in every state reached by ticks, edits, resets, clears and toggles
\* the cells are width*height many, indexed from 0, and width and height are
\* the values Universe::new gave them.
C12_Dimensions ==
    /\ DOMAIN cells = 0 .. width * height - 1
    /\ Cardinality(DOMAIN cells) = width * height
    /\ width = CELL_SIZE
    /\ height = CELL_SIZE

\* C12's witness: after a tick and a pause, a button-down has edited a cell
\* of the grid.
C12_Witness ==
    /\ last.msg = "WM_LBUTTONDOWN"
    /\ cell_draws # <<>>
    /\ count = 1
    /\ ~calc_state
    /\ cells[0] = Alive

\* The step is the handler of WM_KEYDOWN.
IsKeyDown == last'.msg = "WM_KEYDOWN"

\* C13: generation is 0 at construction; a driver tick of a running
\* simulation advances the grid and adds exactly 1; a key event with reset
\* or clear held leaves 0; paused ticks, the pause toggle alone, pointer
\* edits and button releases leave it unchanged.  Hence it counts the
\* advances since the last construction, reset or clear.
C13_Generation ==
    [][/\ last.msg = "new" => count = 0
       /\ (IsTimer /\ calc_state) => count' = count + 1
       /\ (IsTimer /\ ~calc_state) => (count' = count /\ cells' = cells)
       /\ (IsKeyDown /\ last'.down \cap {"F5", "F4"} # {}) => count' = 0
       /\ (IsKeyDown /\ last'.down \cap {"F5", "F4"} = {}) => count' = count
       /\ last'.msg \in PointerMsgs \cup {"WM_LBUTTONUP", "WM_RBUTTONUP"}
            => count' = count]_vars

\* C13's witness: a tick of the running simulation has advanced the grid
\* and brought the generation to MaxCount.
C13_Witness ==
    /\ last.msg = "WM_TIMER"
    /\ before.calc_state
    /\ count = MaxCount

\* C14: with tick_run and the key and pointer handlers interleaved, tick_run
\* replaces the cells and increments the generation only while running is
\* true.
C14_AdvanceOnlyWhileRunning ==
    [][/\ (pc = "tick" /\ pc' = "count") => calc_state
       /\ (pc = "count" /\ pc' = "send") => calc_state]_vars

\* C15: the redraw reads the cells and the generation under one read guard
\* while no write guard is held, and what it has drawn is the Universe as the
\* last complete write operation left it: first its cells, then its cells
\* with its generation.
C15_RedrawSeesOneState ==
    [][/\ (pc = "draw" /\ pc' = "title") =>
            /\ writer = "none" /\ "driver" \in readers'
            /\ frame'.cells = committed.cells
       /\ (pc = "title" /\ pc' = "stop") =>
            /\ writer = "none" /\ "driver" \in readers
            /\ frame' = committed
       /\ "driver" \in readers => UNCHANGED <<cells, count, committed>>]_vars

\* C15's witness: the redraw has drawn generation 1 and returned while the
\* reset handler, dispatched meanwhile, still waits for the write guard.
C15_Witness ==
    /\ pc = "stop"
    /\ frame.title = 1
    /\ frame = committed
    /\ ev = [stage |-> "write", m |-> Msg("WM_KEYDOWN", {"F5"}, 0, 0)]

\* C16: every pointer event that edits a cell, a button-down and a move with
\* a button held alike, leaves renderArmed false (pauseForEdit precedes the
\* edit).
C16_EditDisarms ==
    [][(last'.msg \in PointerMsgs /\ cell_draws' # <<>>) => ~draw_state']_vars

\* The step is an edit whose column last'.x and row last'.y are in range.
IsEditInRange ==
    /\ IsEdit
    /\ 0 <= last'.x /\ last'.x < width
    /\ 0 <= last'.y /\ last'.y < height

\* C17: an in-range edit(cell, col, row) stores the cell at index
\* row*width+col and nowhere else, and leaves generation and running
\* unchanged; a full redraw then draws the cell at (col, row), and the
\* neighbour count of the cell to the right of it (on the torus) changes by
\* exactly the change of the edited cell.
C17_EditWritesOneCell ==
    [][IsEditInRange =>
        LET col == last'.x
            row == last'.y
            right == (col + 1) % width
        IN  /\ ~panicked'
            /\ cells' = [cells EXCEPT ![row * width + col] = last'.cell]
            /\ \A i \in DOMAIN cells : i # row * width + col => cells'[i] = cells[i]
            /\ count' = count /\ calc_state' = calc_state
            /\ width' = width /\ height' = height
            /\ cell_draws' = << <<last'.cell, col, row>> >>
            /\ draw_item(U').cells[<<col, row>>] = last'.cell
            /\ live_neighbor_count(U', row, right) - live_neighbor_count(U, row, right)
                 = last'.cell - cells[row * width + col]]_vars

\* C17's witness: edit(Alive, col = 2, row = 1) has set the dead cell at
\* index 1*width+2, and the cell at index 2*width+1 is still dead.
C17_Witness ==
    /\ last = Call("draw_change", Alive, 2, 1)
    /\ ~panicked
    /\ cells[1 * width + 2] = Alive
    /\ cells[2 * width + 1] = Dead
    /\ cell_draws = << <<Alive, 2, 1>> >>

\* tick_run, or the window_proc call in progress, waits for the lock.
DriverWaits == pc # "idle" /\ ~DriverReady

EventWaits == ev.stage # "idle" /\ ~EventReady

\* No context asks for the write guard while it holds a read guard, and a
\* context that waits for the lock waits for a guard of the other context,
\* whose next step takes no guard and releases it.
NoGuardCycle ==
    /\ driver_needs(pc, stop_draw_local) = "write" => "driver" \notin readers
    /\ event_needs(ev.stage) = "write" => "event" \notin readers
    /\ DriverWaits => (writer = "event" /\ ev.stage = "tail" /\ EventReady)
    /\ EventWaits =>
         /\ (writer = "driver" /\ pc = "count") \/ (readers = {"driver"} /\ pc = "title")
         /\ DriverReady

\* The statements of tick_run in program order, and the stages of a
\* window_proc call.
Rank(p) ==
    CASE p = "calc" -> 1 [] p = "tick" -> 2 [] p = "count" -> 3
      [] p = "send" -> 4 [] p = "draw" -> 5 [] p = "title" -> 6
      [] p = "stop" -> 7 [] p = "stop_write" -> 8 [] OTHER -> 9

StageRank(st) == CASE st = "write" -> 1 [] st = "tail" -> 2 [] OTHER -> 3

\* C18: no handler asks for the write guard while it holds a read guard,
\* the redraw tick_run sends included; no state has both contexts waiting,
\* or one waiting for itself; and every step of a started tick_run, redraw
\* or window_proc call moves it forward in program order, so it returns
\* after at most eight steps of its own.
C18_NoDeadlock ==
    /\ []NoGuardCycle
    /\ [][/\ (pc # "idle" /\ pc' # pc) => Rank(pc') > Rank(pc)
          /\ (ev.stage # "idle" /\ ev'.stage # ev.stage) =>
                StageRank(ev'.stage) > StageRank(ev.stage)]_vars

\* C18's witness: tick_run waits at its write() for tick while the clear
\* handler holds the write guard.
C18_Witness ==
    /\ pc = "tick"
    /\ writer = "event"
    /\ ev = [stage |-> "tail", m |-> Msg("WM_KEYDOWN", {"F4"}, 0, 0)]
    /\ DriverWaits

\* C19: in every state reached from the initial running, armed state by
\* driver ticks, hotkeys and pointer events, running implies renderArmed.
C19_RunningImpliesArmed == calc_state => draw_state

\* C20: tick_run takes renderArmed from true to false only if it has sent a
\* redraw since renderArmed last became true.
C20_DisarmOnlyAfterRedraw ==
    [][(pc = "stop_write" /\ pc' = "idle" /\ draw_state /\ ~draw_state') => sent]_vars

====
